---- MODULE Spec2Model ----
(***************************************************************************)
(* Model of scraper.py: a scheduled job-alert script.  One run of main()   *)
(* validates its configuration, loads the processed-link file, scrapes     *)
(* one search page, and for each candidate link fetches the page, asks     *)
(* the classifier and (on a YES) sends a push notification; at the end it  *)
(* either rewrites the processed-link file or sends a status notification. *)
(* Runs follow each other (never overlap) and share the file.              *)
(***************************************************************************)
EXTENDS Integers, Sequences, FiniteSets, TLC

\* ---------------------------------------------------------------- bounds
\* Most anchors on one search result page.
MaxAnchors == 2

\* ---------------------------------------------------------------- values
\* Python's None.
None == "None"

\* Job-page URLs the search may return, and a URL that contains "google.com".
JobUrls == {"https://a.com/job1", "https://b.com/job2"}
GoogleUrl == "https://maps.google.com/x"
Urls == JobUrls \cup {GoogleUrl}

\* 'google.com' in url (scraper.py:117), on the URLs of the model.
ContainsGoogle(url) == url = GoogleUrl

Range(s) == {s[k] : k \in 1..Len(s)}

\* ------------------------------------------------------- persisted file
\* processed_jobs.json: missing, not JSON, or a JSON array of strings.
FileAbsent == [kind |-> "absent", data |-> <<>>]
FileCorrupt == [kind |-> "corrupt", data |-> <<>>]
FileOf(list) == [kind |-> "list", data |-> list]

\* Duplicate-free lists over the job URLs, the files a first run may find.
InitialLists ==
    {<<>>} \cup {<<u>> : u \in JobUrls}
        \cup {<<u, v>> : <<u, v>> \in {p \in JobUrls \X JobUrls : p[1] # p[2]}}

\* Faulty variant: the file is never read.
get_processed_jobs_NoLoad(f) == <<>>

\* get_processed_jobs: the list in the file, [] when it is missing or corrupt.
get_processed_jobs(f) == IF f.kind = "list" THEN f.data ELSE <<>>

\* save_processed_jobs: the file is overwritten with the given list.
save_processed_jobs(jobs_list) == FileOf(jobs_list)

\* ------------------------------------------------------------ search step
\* An anchor of the result page: whether its href starts with '/url?q=',
\* and the value of its q parameter (None when absent or blank).
Anchors ==
    {[wrapped |-> TRUE, q |-> u] : u \in Urls}
        \cup {[wrapped |-> TRUE, q |-> None]}
        \cup {[wrapped |-> FALSE, q |-> u] : u \in JobUrls}

AnchorLists == UNION {[1..n -> Anchors] : n \in 0..MaxAnchors}

\* Faulty variant: the filter without the processed-list test.
KeepUrl_NoDedup(a, processed_jobs) ==
    /\ a.wrapped
    /\ a.q # None
    /\ ~ContainsGoogle(a.q)

\* The condition under which an anchor's URL is appended to links
\* (scraper.py:115-117).
KeepUrl(a, processed_jobs) ==
    /\ a.wrapped
    /\ a.q # None
    /\ ~ContainsGoogle(a.q)
    /\ a.q \notin Range(processed_jobs)

\* The URLs the '/url?q=' anchors of a page decode to.
WrappedUrls(anchors) ==
    {anchors[k].q : k \in {j \in 1..Len(anchors) :
                              anchors[j].wrapped /\ anchors[j].q # None}}

\* The loop over the anchors in document order (scraper.py:112-118).
RECURSIVE ExtractLinks(_, _)
ExtractLinks(anchors, processed_jobs) ==
    IF anchors = <<>> THEN <<>>
    ELSE LET rest == ExtractLinks(Tail(anchors), processed_jobs)
         IN  IF KeepUrl(Head(anchors), processed_jobs)
             THEN <<Head(anchors).q>> \o rest
             ELSE rest

\* ------------------------------------------------------------ page fetch
\* What requests.get(link) and the parse give: an exception from the
\* request, a document with no <body> (page_soup.body is None), or a
\* document with a body whose <title> is missing, empty or text.
Pages ==
    {[kind |-> "request_error", title |-> "none"],
     [kind |-> "no_body", title |-> "text"],
     [kind |-> "page", title |-> "missing"],
     [kind |-> "page", title |-> "empty"],
     [kind |-> "page", title |-> "text"]}

\* page_soup.title.string if page_soup.title else "No Title Found"
\* (scraper.py:136): the string of an empty <title> is None.
TitleOf(page) ==
    CASE page.title = "missing" -> "No Title Found"
      [] page.title = "empty" -> None
      [] OTHER -> "Walk-in drive"

\* Building job_details (scraper.py:132-140) raises when the request
\* fails or the document has no body.
FetchRaises(page) == page.kind \in {"request_error", "no_body"}

job_details_of(link, page) == [title |-> TitleOf(page), link |-> link]

\* ------------------------------------------------------------ classifier
\* Replies of the model, as sequences of characters.
ReplyNO == <<"N", "O">>
ReplyYES == <<"Y", "E", "S">>
ReplyMixed == <<"Y", "e", "s", ",", " ", "o", "k">>
ReplyInner == <<"o", "k", ":", " ", "y", "E", "s", ".">>
ReplyOther == <<"m", "a", "y", "b", "e">>
Replies ==
    {ReplyNO, ReplyYES, ReplyMixed, ReplyInner, ReplyOther}

\* What the POST to the classifier gives: a RequestException (transport
\* error or HTTP error status), a JSON body whose candidates list is empty
\* (indexing it raises IndexError), or a reply text.
ClassifierResponses ==
    {[kind |-> "request_exception", text |-> <<>>],
     [kind |-> "no_candidates", text |-> <<>>]}
        \cup {[kind |-> "text", text |-> t] : t \in Replies}

\* str.upper on one character.
UpperChar(c) ==
    CASE c = "y" -> "Y"
      [] c = "e" -> "E"
      [] c = "s" -> "S"
      [] c = "o" -> "O"
      [] c = "k" -> "K"
      [] c = "m" -> "M"
      [] c = "a" -> "A"
      [] c = "b" -> "B"
      [] OTHER -> c

Upper(text) == [k \in 1..Len(text) |-> UpperChar(text[k])]

\* needle in text
Contains(needle, text) ==
    \E k \in 0..(Len(text) - Len(needle)) :
        \A j \in 1..Len(needle) : text[k + j] = needle[j]

\* "YES" in text_response.upper()  (scraper.py:51)
Verdict(text) == Contains(<<"Y", "E", "S">>, Upper(text))

\* Faulty variant: a failed request counts as a YES.
analyze_with_gemini_FailOpen(resp) ==
    CASE resp.kind = "request_exception" -> [raised |-> FALSE, value |-> TRUE]
      [] resp.kind = "no_candidates" -> [raised |-> TRUE, value |-> FALSE]
      [] OTHER -> [raised |-> FALSE, value |-> Verdict(resp.text)]

\* analyze_with_gemini: raised is an exception that leaves the function,
\* value is the boolean returned otherwise (scraper.py:45-54).
analyze_with_gemini(resp) ==
    CASE resp.kind = "request_exception" -> [raised |-> FALSE, value |-> FALSE]
      [] resp.kind = "no_candidates" -> [raised |-> TRUE, value |-> FALSE]
      [] OTHER -> [raised |-> FALSE, value |-> Verdict(resp.text)]

\* -------------------------------------------------------------- notifier
\* Outcome of the POST to ntfy.sh.
NetOutcomes == {"delivered", "request_exception"}

\* send_ntfy_notification (scraper.py:56-83).  The job branch encodes the
\* title before the request: a title of None raises AttributeError, which
\* leaves the function with no request made.  A RequestException of the
\* request is caught inside.  posted: the request was made.
send_ntfy_notification(job, is_no_job_notification, net) ==
    IF ~is_no_job_notification /\ job.title = None
    THEN [raised |-> TRUE, posted |-> FALSE, delivered |-> FALSE]
    ELSE [raised |-> FALSE, posted |-> TRUE, delivered |-> net = "delivered"]

\* ------------------------------------------------- one loop iteration
\* Faulty variant: the handler catches request errors only, so an
\* AttributeError or IndexError leaves the loop.
process_link_NarrowExcept(link, page, resp, net) ==
    IF FetchRaises(page)
    THEN [result |-> "fetch_raised", classified |-> FALSE,
          posted |-> FALSE, accepted |-> FALSE,
          abort |-> page.kind = "no_body"]
    ELSE LET verdict == analyze_with_gemini(resp)
         IN  IF verdict.raised
             THEN [result |-> "classify_raised", classified |-> TRUE,
                   posted |-> FALSE, accepted |-> FALSE, abort |-> TRUE]
             ELSE IF ~verdict.value
             THEN [result |-> IF resp.kind = "request_exception"
                              THEN "classify_request_failed"
                              ELSE "rejected",
                   classified |-> TRUE, posted |-> FALSE,
                   accepted |-> FALSE, abort |-> FALSE]
             ELSE LET sent == send_ntfy_notification(
                                  job_details_of(link, page), FALSE, net)
                  IN  IF sent.raised
                      THEN [result |-> "notify_raised", classified |-> TRUE,
                            posted |-> sent.posted, accepted |-> FALSE,
                            abort |-> TRUE]
                      ELSE [result |-> IF sent.delivered THEN "notified"
                                       ELSE "notify_undelivered",
                            classified |-> TRUE, posted |-> sent.posted,
                            accepted |-> TRUE, abort |-> FALSE]

\* Faulty variant: the append sits outside the `if`, so every classified
\* link that did not raise is appended.
process_link_AppendAlways(link, page, resp, net) ==
    IF FetchRaises(page)
    THEN [result |-> "fetch_raised", classified |-> FALSE,
          posted |-> FALSE, accepted |-> FALSE, abort |-> FALSE]
    ELSE LET verdict == analyze_with_gemini(resp)
         IN  IF verdict.raised
             THEN [result |-> "classify_raised", classified |-> TRUE,
                   posted |-> FALSE, accepted |-> FALSE, abort |-> FALSE]
             ELSE IF ~verdict.value
             THEN [result |-> IF resp.kind = "request_exception"
                              THEN "classify_request_failed"
                              ELSE "rejected",
                   classified |-> TRUE, posted |-> FALSE,
                   accepted |-> TRUE, abort |-> FALSE]
             ELSE [result |-> "notified", classified |-> TRUE,
                   posted |-> TRUE, accepted |-> TRUE, abort |-> FALSE]

\* Faulty variant: a link is appended only when its notification was
\* delivered.
process_link_DropUndelivered(link, page, resp, net) ==
    IF FetchRaises(page)
    THEN [result |-> "fetch_raised", classified |-> FALSE,
          posted |-> FALSE, accepted |-> FALSE, abort |-> FALSE]
    ELSE LET verdict == analyze_with_gemini(resp)
         IN  IF verdict.raised
             THEN [result |-> "classify_raised", classified |-> TRUE,
                   posted |-> FALSE, accepted |-> FALSE, abort |-> FALSE]
             ELSE IF ~verdict.value
             THEN [result |-> IF resp.kind = "request_exception"
                              THEN "classify_request_failed"
                              ELSE "rejected",
                   classified |-> TRUE, posted |-> FALSE,
                   accepted |-> FALSE, abort |-> FALSE]
             ELSE LET sent == send_ntfy_notification(
                                  job_details_of(link, page), FALSE, net)
                  IN  IF sent.raised
                      THEN [result |-> "notify_raised", classified |-> TRUE,
                            posted |-> sent.posted, accepted |-> FALSE,
                            abort |-> FALSE]
                      ELSE [result |-> IF sent.delivered THEN "notified"
                                       ELSE "notify_undelivered",
                            classified |-> TRUE, posted |-> sent.posted,
                            accepted |-> sent.delivered, abort |-> FALSE]

\* The body of `for link in links` (scraper.py:128-147) for one link, given
\* what the page fetch, the classifier and the notification request give.
\*   result     how the iteration ended
\*   classified analyze_with_gemini was called
\*   posted     the job notification request was made
\*   accepted   link was appended to new_jobs_found
\*   abort      an exception left the loop (never: `except Exception`)
process_link(link, page, resp, net) ==
    IF FetchRaises(page)
    THEN [result |-> "fetch_raised", classified |-> FALSE,
          posted |-> FALSE, accepted |-> FALSE, abort |-> FALSE]
    ELSE LET verdict == analyze_with_gemini(resp)
         IN  IF verdict.raised
             THEN [result |-> "classify_raised", classified |-> TRUE,
                   posted |-> FALSE, accepted |-> FALSE, abort |-> FALSE]
             ELSE IF ~verdict.value
             THEN [result |-> IF resp.kind = "request_exception"
                              THEN "classify_request_failed"
                              ELSE "rejected",
                   classified |-> TRUE, posted |-> FALSE,
                   accepted |-> FALSE, abort |-> FALSE]
             ELSE LET sent == send_ntfy_notification(
                                  job_details_of(link, page), FALSE, net)
                  IN  IF sent.raised
                      THEN [result |-> "notify_raised", classified |-> TRUE,
                            posted |-> sent.posted, accepted |-> FALSE,
                            abort |-> FALSE]
                      ELSE [result |-> IF sent.delivered THEN "notified"
                                       ELSE "notify_undelivered",
                            classified |-> TRUE, posted |-> sent.posted,
                            accepted |-> TRUE, abort |-> FALSE]

\* ------------------------------------------------------------ final step
\* Faulty variant: the new links are put first.
Merge_Prepend(processed_jobs, new_jobs_found) == new_jobs_found \o processed_jobs

\* processed_jobs + new_jobs_found  (scraper.py:151)
Merge(processed_jobs, new_jobs_found) == processed_jobs \o new_jobs_found

\* Faulty variant: the file is rewritten in every run.
ShouldSave_Always(new_jobs_found) == TRUE

\* `if new_jobs_found:` (scraper.py:150)
ShouldSave(new_jobs_found) == new_jobs_found # <<>>

\* `if not GEMINI_API_KEY or not NTFY_TOPIC` (scraper.py:94): unset and
\* empty values are both missing.
EnvValues == {None, "", "set"}
ConfigMissing(key, topic) == key \in {None, ""} \/ topic \in {None, ""}

\* ----------------------------------------------------------------- state
VARIABLES
    file,            \* processed_jobs.json on disk
    pc,              \* where the current run is
    processed_jobs,  \* main's processed_jobs, as loaded
    offered,         \* the URLs the result page of this run wrapped
    links,           \* main's links, the candidate list
    i,               \* position in links of the next loop iteration
    new_jobs_found,  \* main's new_jobs_found
    outcome,         \* how each finished iteration of this run ended
    fetchLog,        \* requests.get(link) calls of this run
    classifyLog,     \* analyze_with_gemini calls of this run
    notifyLog,       \* job notification requests of this run
    last,            \* what the requests of the last iteration gave
    statusCount,     \* status notification requests of this run
    saveCount,       \* save_processed_jobs calls of this run
    fileAtStart,     \* the file as it was when this run started
    past             \* what earlier completed runs did

vars ==
    <<file, pc, processed_jobs, offered, links, i, new_jobs_found,
      outcome, fetchLog, classifyLog, notifyLog, last, statusCount,
      saveCount, fileAtStart, past>>

NoLast == [page |-> [kind |-> "none", title |-> "none"],
           resp |-> [kind |-> "none", text |-> <<>>],
           net |-> "none"]

\* Inputs an iteration does not read are fixed, so that equal behaviours
\* are one state.
UnreadResp == [kind |-> "none", text |-> <<>>]
UnreadNet == "delivered"

\* Positions of links whose iteration ended with one of the given results.
PositionsWith(results) == {k \in 1..Len(outcome) : outcome[k] \in results}
AcceptedResults == {"notified", "notify_undelivered"}
FailedResults == {"fetch_raised", "classify_raised", "classify_request_failed"}

Init ==
    /\ file \in {FileAbsent, FileCorrupt} \cup {FileOf(l) : l \in InitialLists}
    /\ pc = "idle"
    /\ processed_jobs = <<>>
    /\ offered = {}
    /\ links = <<>>
    /\ i = 1
    /\ new_jobs_found = <<>>
    /\ outcome = <<>>
    /\ fetchLog = <<>>
    /\ classifyLog = <<>>
    /\ notifyLog = <<>>
    /\ last = NoLast
    /\ statusCount = 0
    /\ saveCount = 0
    /\ fileAtStart = file
    /\ past = [notified |-> {}, undelivered |-> {}, unaccepted |-> {}]

\* What a completed run adds to the record of earlier runs.
PastAfterRun ==
    IF pc = "done"
    THEN [notified |-> past.notified \cup {e.link : e \in Range(notifyLog)},
          undelivered |-> past.undelivered
              \cup {links[k] : k \in PositionsWith({"notify_undelivered"})},
          unaccepted |-> Range(links) \ Range(new_jobs_found)]
    ELSE past

\* A new process starts: every local of main is fresh.
FreshRun ==
    /\ pc \in {"idle", "done", "aborted"}
    /\ past' = PastAfterRun
    /\ fileAtStart' = file
    /\ offered' = {}
    /\ links' = <<>>
    /\ i' = 1
    /\ new_jobs_found' = <<>>
    /\ outcome' = <<>>
    /\ fetchLog' = <<>>
    /\ classifyLog' = <<>>
    /\ notifyLog' = <<>>
    /\ last' = NoLast
    /\ statusCount' = 0
    /\ saveCount' = 0
    /\ UNCHANGED file

\* main, scraper.py:88-96: a missing key or topic ends the run at once.
MainConfigMissing ==
    /\ FreshRun
    /\ \E key \in EnvValues, topic \in EnvValues : ConfigMissing(key, topic)
    /\ processed_jobs' = <<>>
    /\ pc' = "aborted"

\* main, scraper.py:88-100: configuration present, the file is loaded.
MainLoad ==
    /\ FreshRun
    /\ \E key \in EnvValues, topic \in EnvValues : ~ConfigMissing(key, topic)
    /\ processed_jobs' = get_processed_jobs(file)
    /\ pc' = "search"

\* main, scraper.py:108: the search request raises; nothing catches it.
SearchFails ==
    /\ pc = "search"
    /\ pc' = "aborted"
    /\ UNCHANGED <<file, processed_jobs, offered, links, i,
                   new_jobs_found, outcome, fetchLog, classifyLog, notifyLog,
                   last, statusCount, saveCount, fileAtStart, past>>

\* main, scraper.py:108-125: the result page is parsed and filtered.
Search ==
    /\ pc = "search"
    /\ \E page \in AnchorLists :
        /\ offered' = WrappedUrls(page)
        /\ links' = ExtractLinks(page, processed_jobs)
    /\ pc' = "loop"
    /\ UNCHANGED <<file, processed_jobs, i, new_jobs_found, outcome,
                   fetchLog, classifyLog, notifyLog, last, statusCount,
                   saveCount, fileAtStart, past>>

\* main, scraper.py:128-147: one iteration of the loop over links.
ProcessLink ==
    /\ pc = "loop"
    /\ i <= Len(links)
    /\ \E page \in Pages, resp \in ClassifierResponses \cup {UnreadResp},
          net \in NetOutcomes :
        LET link == links[i]
            r == process_link(link, page, resp, net)
            entry == [idx |-> i, link |-> link]
        IN  /\ resp = UnreadResp <=> ~r.classified
            /\ ~r.posted => net = UnreadNet
            /\ fetchLog' = Append(fetchLog, entry)
            /\ classifyLog' = IF r.classified THEN Append(classifyLog, entry)
                              ELSE classifyLog
            /\ notifyLog' = IF r.posted THEN Append(notifyLog, entry)
                            ELSE notifyLog
            /\ new_jobs_found' = IF r.accepted THEN Append(new_jobs_found, link)
                                 ELSE new_jobs_found
            /\ outcome' = Append(outcome, r.result)
            /\ last' = [page |-> page, resp |-> resp, net |-> net]
            /\ IF r.abort
               THEN pc' = "aborted" /\ i' = i
               ELSE pc' = "loop" /\ i' = i + 1
    /\ UNCHANGED <<file, processed_jobs, offered, links, statusCount,
                   saveCount, fileAtStart, past>>

\* The status dictionary of scraper.py:157-160.
status_update == [title |-> "Job Search Complete", link |-> "/actions"]

\* main, scraper.py:149-161: the file is rewritten, or the status
\* notification is sent.
Finalize ==
    /\ pc = "loop"
    /\ i > Len(links)
    /\ IF ShouldSave(new_jobs_found)
       THEN /\ file' = save_processed_jobs(Merge(processed_jobs, new_jobs_found))
            /\ saveCount' = saveCount + 1
            /\ UNCHANGED statusCount
       ELSE /\ \E net \in NetOutcomes :
                LET sent == send_ntfy_notification(status_update, TRUE, net)
                IN  statusCount' = IF sent.posted THEN statusCount + 1
                                   ELSE statusCount
            /\ UNCHANGED <<file, saveCount>>
    /\ pc' = "done"
    /\ UNCHANGED <<processed_jobs, offered, links, i, new_jobs_found,
                   outcome, fetchLog, classifyLog, notifyLog, last,
                   fileAtStart, past>>

Next ==
    \/ MainConfigMissing
    \/ MainLoad
    \/ SearchFails
    \/ Search
    \/ ProcessLink
    \/ Finalize

Spec == Init /\ [][Next]_vars

\* One run of main() and no more.
FirstRun ==
    \/ pc = "idle" /\ (MainConfigMissing \/ MainLoad)
    \/ SearchFails
    \/ Search
    \/ ProcessLink
    \/ Finalize

\* One run, with fairness.  The interpreter runs main to its end, and the
\* requests of the loop and of the final step carry timeouts (scraper.py:46,
\* 79, 132): once in the loop the run takes its next step.  The search
\* request has no timeout, so the search step is given no fairness.
OneRunSpec ==
    /\ Init
    /\ [][FirstRun]_vars
    /\ WF_vars(ProcessLink)
    /\ WF_vars(Finalize)

\* ================================================================ claims
LinksOf(log) == {e.link : e \in Range(log)}
IdxOf(log) == {e.idx : e \in Range(log)}

\* The list a run loads from the file it found.
LoadedAtStart == IF fileAtStart.kind = "list" THEN fileAtStart.data ELSE <<>>

\* The links at the accepted positions, in candidate order.
RECURSIVE AcceptedUpTo(_)
AcceptedUpTo(n) ==
    IF n = 0 THEN <<>>
    ELSE IF outcome[n] \in AcceptedResults
         THEN Append(AcceptedUpTo(n - 1), links[n])
         ELSE AcceptedUpTo(n - 1)

\* C1: a URL of the processed-link list loaded at the start of the run is
\* not a candidate, and is never fetched, classified or notified in the run.
C1_ProcessedNeverRevisited ==
    \A u \in Range(LoadedAtStart) :
        /\ u \notin Range(links)
        /\ u \notin LinksOf(fetchLog)
        /\ u \notin LinksOf(classifyLog)
        /\ u \notin LinksOf(notifyLog)

\* C1 witness: the search returned a processed URL beside a new one, and the
\* run fetched and notified the new one.
C1_Witness ==
    /\ pc = "done"
    /\ notifyLog # <<>>
    /\ \E u \in Range(LoadedAtStart) : u \in offered

\* C2: a link notified in an earlier completed run is not notified again.
C2_NoRepeatAcrossRuns ==
    \A u \in past.notified : u \notin LinksOf(notifyLog)

\* C2 witness: a later run whose search returns a link notified earlier,
\* and which itself sends a notification.
C2_Witness ==
    /\ pc = "done"
    /\ notifyLog # <<>>
    /\ \E u \in past.notified : u \in offered

NoDuplicates(s) == \A j, k \in 1..Len(s) : s[j] = s[k] => j = k

\* C3: no URL occurs twice in the persisted list.
C3_FileDuplicateFree == NoDuplicates(file.data)

\* C4: a run that ends with no accepted link sent the status notification
\* once, never saved, sent no job notification and left the file as it was.
C4_NothingAccepted ==
    (pc = "done" /\ new_jobs_found = <<>>) =>
        /\ statusCount = 1
        /\ saveCount = 0
        /\ notifyLog = <<>>
        /\ file = fileAtStart

\* C4 witness: every candidate of a full page was processed and none
\* accepted, in a run that found no file.
C4_Witness ==
    /\ pc = "done"
    /\ new_jobs_found = <<>>
    /\ Len(outcome) = MaxAnchors
    /\ "rejected" \in Range(outcome)
    /\ fileAtStart.kind = "absent"

\* C5: a run with exactly one accepted link leaves the loaded list with
\* that link appended, and sends no status notification.
C5_OneAccepted ==
    (pc = "done" /\ Cardinality(PositionsWith(AcceptedResults)) = 1) =>
        /\ file.kind = "list"
        /\ \E k \in PositionsWith(AcceptedResults) :
               file.data = Append(LoadedAtStart, links[k])
        /\ statusCount = 0

\* C5 witness: one of several candidates accepted, over a non-empty list.
C5_Witness ==
    /\ pc = "done"
    /\ Cardinality(PositionsWith(AcceptedResults)) = 1
    /\ Len(links) > 1
    /\ LoadedAtStart # <<>>

\* The last iteration's fetch or parse raised, or its classifier call failed.
LastFailed ==
    \/ last.page.kind \in {"request_error", "no_body"}
    \/ last.resp.kind \in {"request_exception", "no_candidates"}

\* C6: a candidate whose fetch or classification failed is not notified and
\* not accepted, and the loop goes on to every later candidate in order.
C6_FailureIsolated ==
    /\ (outcome # <<>> /\ LastFailed) => outcome[Len(outcome)] \in FailedResults
    /\ \A a \in PositionsWith(FailedResults) :
        /\ a \notin IdxOf(notifyLog)
        /\ pc \in {"loop", "done"}
        /\ i > a
    /\ new_jobs_found = AcceptedUpTo(Len(outcome))
    /\ fetchLog = [k \in 1..Len(outcome) |-> [idx |-> k, link |-> links[k]]]
    /\ \A k \in 1..Len(outcome) :
           outcome[k] # "fetch_raised" <=> k \in IdxOf(classifyLog)
    /\ pc = "done" => Len(outcome) = Len(links)

\* C6 witness: the first candidate failed and a later one was fetched,
\* classified and notified.
C6_Witness ==
    /\ pc = "done"
    /\ Len(outcome) > 1
    /\ outcome[1] \in FailedResults
    /\ outcome[Len(outcome)] = "notified"

\* C7: once the search has returned, the run reaches its end, having either
\* saved or sent the status notification, whatever failed on the way.
C7_RunCompletes ==
    /\ [][pc = "loop" => pc' \in {"loop", "done"}]_vars
    /\ [](pc = "done" => saveCount + statusCount = 1)
    /\ (pc = "loop") ~> (pc = "done")

\* C7 witness: a run that ended after a failed fetch, a failed
\* classification and a notification that raised.
C7_Witness ==
    /\ pc = "done"
    /\ "fetch_raised" \in Range(outcome)
    /\ \/ "classify_raised" \in Range(outcome)
       \/ "notify_raised" \in Range(outcome)

\* C8: for the candidate just processed, a reply of exactly "NO" sends no
\* job notification and a reply containing "YES" in any case sends one.
C8_VerdictDecidesNotification ==
    (outcome # <<>> /\ last.resp.kind = "text") =>
        /\ last.resp.text = ReplyNO => Len(outcome) \notin IdxOf(notifyLog)
        /\ last.resp.text \in {ReplyYES, ReplyMixed, ReplyInner}
               => Len(outcome) \in IdxOf(notifyLog)

\* C9: what a run adds to the file are accepted links only; a candidate that
\* was not accepted is absent from it, and the next run that finds it in
\* its search results takes it as a candidate and processes it again.
C9_OnlyAcceptedPersisted ==
    /\ pc = "done" =>
        /\ \A u \in Range(file.data) \ Range(LoadedAtStart) :
               \E k \in PositionsWith(AcceptedResults) : links[k] = u
        /\ \A u \in Range(links) :
               (\A k \in 1..Len(links) :
                    links[k] = u => outcome[k] \notin AcceptedResults)
                   => u \notin Range(file.data)
    /\ \A u \in past.unaccepted :
        /\ u \notin Range(LoadedAtStart)
        /\ u \in offered => u \in Range(links)
        /\ (pc = "done" /\ u \in offered) =>
               \E e \in Range(fetchLog) :
                   /\ e.link = u
                   /\ outcome[e.idx] # "fetch_raised"
                          => e.idx \in IdxOf(classifyLog)

\* C9 witness: a link rejected in the last run is offered, fetched and
\* classified again.
C9_Witness ==
    /\ pc = "done"
    /\ \E u \in past.unaccepted : u \in offered /\ u \in LinksOf(classifyLog)

\* C10: a link whose notification request failed inside the notifier is
\* accepted and persisted, the loop goes on, and no later run notifies it.
C10_UndeliveredStillPersisted ==
    /\ last.net = "request_exception" =>
           /\ outcome[Len(outcome)] = "notify_undelivered"
           /\ new_jobs_found # <<>>
           /\ new_jobs_found[Len(new_jobs_found)] = links[Len(outcome)]
    /\ \A k \in PositionsWith({"notify_undelivered"}) :
        /\ links[k] \in Range(new_jobs_found)
        /\ pc \in {"loop", "done"}
        /\ i > k
        /\ pc = "done" =>
               /\ links[k] \in Range(file.data)
               /\ Len(outcome) = Len(links)
    /\ \A u \in past.undelivered : u \notin LinksOf(notifyLog)

\* C10 witness: a later run is offered a link whose notification failed in
\* delivery in an earlier run, and processes another candidate to its end.
C10_Witness ==
    /\ pc = "done"
    /\ \E u \in past.undelivered : u \in offered
    /\ outcome # <<>>
====
